---- MODULE Spec2Model ----
(***************************************************************************)
(* Model of api/index.py: the catch-all handler proxy_to_gemini, which     *)
(* forwards a request to the Gemini API, trying the API keys of a shuffled *)
(* pool one after the other.                                               *)
(*                                                                         *)
(* Text is a sequence of one-character strings wherever the code looks     *)
(* inside it (header names, key lists, the path); bodies are sequences of  *)
(* byte chunks.  Python's None is the empty sequence None and a present    *)
(* value x is Some(x).  A dict is a function whose DOMAIN is its key set.  *)
(***************************************************************************)
EXTENDS Integers, Sequences, FiniteSets, TLC

VARIABLES
    request,        \* the inbound request: path, wire headers, body chunks
    environ,        \* os.environ, a sequence of <<name, value>> pairs
    pc,             \* handler position: start, loop, awaiting, returned, raised
    api_keys,       \* the (shuffled) credential pool
    env_consulted,  \* os.environ.get('GOOGLE_API_KEYS') has been evaluated
    headers,        \* the outbound header dict
    last_error,     \* None or Some(body)
    last_status,
    i,              \* 1-based position of `key` in `for key in api_keys`
    client_open,    \* the httpx.AsyncClient of line 58 is open
    stream_consumed,\* request.stream() has been iterated by an attempt
    body_reads,     \* times the inbound body was read from its source
    body_cache,     \* request._body: None or Some(bytes kept by request.body())
    sending,        \* None or Some(body of the upstream call being awaited)
    in_flight,      \* positions whose upstream connection/response is open
    attempts,       \* log of the upstream calls made, oldest first
    result,         \* None or Some(response handed to the framework)
    relay,          \* r.aiter_bytes() relay: none, active, complete, aborted
    upstream_rest,  \* chunks of the upstream body not yet relayed
    delivered       \* chunks the caller has received from the relay

vars == <<request, environ, pc, api_keys, env_consulted, headers, last_error,
          last_status, i, client_open, stream_consumed, body_reads, body_cache,
          sending, in_flight, attempts, result, relay, upstream_rest, delivered>>

----------------------------------------------------------------------------
(* Bounds of the exhaustive input spaces.                                  *)
MaxKeyLen == 3
MaxEnvLen == 2
MaxHeaders == 2

----------------------------------------------------------------------------
(* Python values.                                                          *)
None == <<>>
Some(x) == <<x>>

EmptyDict == [k \in {} |-> <<>>]
DictSet(d, k, v) == [x \in (DOMAIN d) \cup {k} |-> IF x = k THEN v ELSE d[x]]

LowerTable ==
    [A |-> "a", B |-> "b", C |-> "c", D |-> "d", E |-> "e", F |-> "f",
     G |-> "g", H |-> "h", I |-> "i", J |-> "j", K |-> "k", L |-> "l",
     M |-> "m", N |-> "n", O |-> "o", P |-> "p", Q |-> "q", R |-> "r",
     S |-> "s", T |-> "t", U |-> "u", V |-> "v", W |-> "w", X |-> "x",
     Y |-> "y", Z |-> "z"]

\* str.lower()
Lower(s) ==
    [j \in 1..Len(s) |-> IF s[j] \in DOMAIN LowerTable THEN LowerTable[s[j]] ELSE s[j]]

\* sub in s
Contains(sub, s) ==
    \E j \in 0..(Len(s) - Len(sub)) : SubSeq(s, j + 1, j + Len(sub)) = sub

Whitespace == {" ", "\t"}

\* str.strip()
RECURSIVE LStrip(_)
LStrip(s) == IF s # <<>> /\ Head(s) \in Whitespace THEN LStrip(Tail(s)) ELSE s

RECURSIVE RStrip(_)
RStrip(s) ==
    IF s # <<>> /\ s[Len(s)] \in Whitespace THEN RStrip(SubSeq(s, 1, Len(s) - 1)) ELSE s

Strip(s) == RStrip(LStrip(s))

\* str.split(',')
RECURSIVE Split(_)
Split(s) ==
    IF \E j \in 1..Len(s) : s[j] = ","
    THEN LET p == CHOOSE j \in 1..Len(s) :
                      s[j] = "," /\ \A m \in 1..(j - 1) : s[m] # ","
         IN  <<SubSeq(s, 1, p - 1)>> \o Split(SubSeq(s, p + 1, Len(s)))
    ELSE <<s>>

IsTruthy(s) == s # <<>>

\* [key.strip() for key in value.split(',') if key.strip()]
ParseKeysDropsNothing(value) ==
    LET parts == Split(value)
    IN  [j \in 1..Len(parts) |-> Strip(parts[j])]

ParseKeys(value) ==
    LET parts == Split(value)
    IN  SelectSeq([j \in 1..Len(parts) |-> Strip(parts[j])], IsTruthy)

----------------------------------------------------------------------------
(* Header names and literals of the source.                                *)
KeyHeader == <<"x","-","g","o","o","g","-","a","p","i","-","k","e","y">>
UserAgentKey == <<"U","s","e","r","-","A","g","e","n","t">>
ContentType == <<"c","o","n","t","e","n","t","-","t","y","p","e">>
ContentEncoding == <<"c","o","n","t","e","n","t","-","e","n","c","o","d","i","n","g">>
TransferEncoding == <<"t","r","a","n","s","f","e","r","-","e","n","c","o","d","i","n","g">>
StreamWord == <<"s","t","r","e","a","m">>

FixedUserAgent ==
    <<"Mozilla/5.0 (Windows NT 10.0; Win64; x64) AppleWebKit/537.36 (KHTML, like Gecko) CherryStudio/1.5.1 Chrome/134.0.6998.205 Electron/35.6.0 Safari/537.36">>

excluded_headers ==
    { <<"h","o","s","t">>,
      <<"x","-","r","e","a","l","-","i","p">>,
      <<"x","-","f","o","r","w","a","r","d","e","d","-","f","o","r">>,
      <<"x","-","f","o","r","w","a","r","d","e","d","-","p","r","o","t","o">>,
      <<"x","-","v","e","r","c","e","l","-","i","d">>,
      <<"x","-","v","e","r","c","e","l","-","d","e","p","l","o","y","m","e","n","t","-","u","r","l">>,
      <<"x","-","v","e","r","c","e","l","-","p","r","o","x","i","e","d","-","f","o","r">>,
      KeyHeader }

JsonMediaType == <<"application/json">>
\* the JSON error text of line 32, abbreviated
MissingKeysBody == <<"{\"error\": \"no API key provided\"}">>

----------------------------------------------------------------------------
(* The framework's view of the inbound request.                            *)

\* request.headers.items(): every header line, names lower-cased by ASGI
RequestHeaderItems(req) ==
    [j \in 1..Len(req.headers) |-> <<Lower(req.headers[j][1]), req.headers[j][2]>>]

\* Headers.get(name, default): the value of the first line of that name
HeadersGet(items, name, default) ==
    IF \E j \in 1..Len(items) : items[j][1] = Lower(name)
    THEN items[CHOOSE j \in 1..Len(items) :
                   /\ items[j][1] = Lower(name)
                   /\ \A m \in 1..(j - 1) : items[m][1] # Lower(name)][2]
    ELSE default

\* os.environ.get(name, default)
EnvironGet(env, name, default) ==
    IF \E j \in 1..Len(env) : env[j][1] = name
    THEN env[CHOOSE j \in 1..Len(env) : env[j][1] = name][2]
    ELSE default

\* {k: v for k, v in items if k.lower() not in excluded}: a later item of the
\* same key replaces an earlier one
DictOfKept(items, excluded) ==
    LET kept == {j \in 1..Len(items) : Lower(items[j][1]) \notin excluded}
        last(k) == CHOOSE j \in kept :
                       /\ items[j][1] = k
                       /\ \A m \in kept : items[m][1] = k => m <= j
    IN  [k \in {items[j][1] : j \in kept} |-> items[last(k)][2]]

\* lines 44-52: the header dict built once before the loop
SanitizedHeaders(req) ==
    DictSet(DictOfKept(RequestHeaderItems(req), excluded_headers),
            UserAgentKey, FixedUserAgent)

\* line 65
is_streaming == Contains(StreamWord, Lower(request.path))

\* random.shuffle: every reordering of the list
Shuffles(keys) ==
    {[j \in 1..Len(keys) |-> keys[p[j]]] : p \in Permutations(1..Len(keys))}

----------------------------------------------------------------------------
(* The upstream: what one call to it can produce.                          *)
Statuses == {200, 302, 399, 400, 429, 499, 500, 503}
\* the header lines and body chunks an upstream response can carry
UpstreamPayloads ==
    { [lines |-> << <<<<"C","o","n","t","e","n","t","-","T","y","p","e">>,
                      <<"application/json">>>> >>,
       content |-> <<"c1">>],
      [lines |-> << <<ContentType, <<"text/event-stream">>>>,
                    <<<<"C","o","n","t","e","n","t","-","E","n","c","o","d","i","n","g">>,
                      <<"gzip">>>>,
                    <<TransferEncoding, <<"chunked">>>> >>,
       content |-> <<"c2", "c3">>] }

\* httpx.RequestError subclasses: raised before / after the request body is sent
ConnectError == "ConnectError"
ReadTimeout == "ReadTimeout"
RequestErrors == {ConnectError, ReadTimeout}

Responses ==
    {[kind |-> "response", status_code |-> s, lines |-> p.lines,
      content |-> p.content, error |-> ""] : s \in Statuses, p \in UpstreamPayloads}
Failures ==
    [kind : {"error"}, status_code : {0}, lines : {<<>>}, content : {<<>>},
     error : RequestErrors]

\* response.headers.items(): httpx reports lower-cased names
ResponseHeaderItems(r) ==
    [j \in 1..Len(r.lines) |-> <<Lower(r.lines[j][1]), r.lines[j][2]>>]

\* dict(response.headers)
ResponseHeaderDict(r) == DictOfKept(ResponseHeaderItems(r), {})

\* line 91
FilteredResponseHeaders(r) ==
    DictOfKept(ResponseHeaderItems(r), {ContentEncoding, TransferEncoding})

\* response.headers.get("content-type")
ResponseMediaType(r) == HeadersGet(ResponseHeaderItems(r), ContentType, None)

\* lines 88, 95, 102: the order in which the buffered branch tests the status
ClassifyRetriesRedirects(status) ==
    IF status < 300 THEN "success"
    ELSE IF 300 <= status /\ status < 500 THEN "retry"
    ELSE "fatal"

ClassifyRetriesServerErrors(status) ==
    IF status < 400 THEN "success" ELSE "retry"

Classify(status) ==
    IF status < 400 THEN "success"
    ELSE IF 400 <= status /\ status < 500 THEN "retry"
    ELSE "fatal"

\* lines 97-98 and 109-110: the failure kept for the exhaustion return
RecordFailureKeepsFirst(prev, status, body) ==
    IF prev.error = None THEN [error |-> Some(body), status |-> status] ELSE prev

RecordFailureDropsBody(prev, status, body) ==
    [error |-> prev.error, status |-> status]

RecordFailure(prev, status, body) ==
    [error |-> Some(body), status |-> status]

\* line 109
ProxyErrorBody(e) == <<"{\"error\": \"Proxy fetch error\", \"details\": ", e, "}">>

----------------------------------------------------------------------------
(* Lines 20-58: credential extraction, shuffle, header sanitizing.         *)
api_key_header == HeadersGet(RequestHeaderItems(request), KeyHeader, <<>>)
env_keys == EnvironGet(environ, "GOOGLE_API_KEYS", <<>>)

\* lines 23-29
ExtractedKeysMixesSources == ParseKeys(api_key_header) \o ParseKeys(env_keys)

ExtractedKeys ==
    IF ParseKeys(api_key_header) # <<>> THEN ParseKeys(api_key_header)
    ELSE ParseKeys(env_keys)

\* lines 31-32
ReturnMissingKeys ==
    /\ pc = "start"
    /\ ExtractedKeys = <<>>
    /\ env_consulted' = TRUE
    /\ result' = Some([kind |-> "missing", status_code |-> 400,
                       content |-> Some(MissingKeysBody), headers |-> EmptyDict,
                       media_type |-> JsonMediaType])
    /\ pc' = "returned"
    /\ UNCHANGED <<request, environ, api_keys, headers, last_error, last_status,
                   i, client_open, stream_consumed, body_reads, body_cache,
                   sending, in_flight, attempts, relay, upstream_rest, delivered>>

\* lines 35-58
EnterLoop ==
    /\ pc = "start"
    /\ ExtractedKeys # <<>>
    /\ env_consulted' = (ParseKeys(api_key_header) = <<>>)
    /\ api_keys' \in Shuffles(ExtractedKeys)
    /\ headers' = SanitizedHeaders(request)
    /\ last_error' = None
    /\ last_status' = 500
    /\ client_open' = TRUE
    /\ i' = 1
    /\ pc' = "loop"
    /\ UNCHANGED <<request, environ, stream_consumed, body_reads, body_cache,
                   sending, in_flight, attempts, result, relay, upstream_rest,
                   delivered>>

----------------------------------------------------------------------------------------------------------------------------------------------------
(* Lines 59-111: one iteration of `for key in api_keys`.                   *)
InLoop == pc = "loop" /\ i <= Len(api_keys)
Awaiting == pc = "awaiting"

\* line 61
OutboundHeadersKeepsFirstKey ==
    IF KeyHeader \in DOMAIN headers THEN headers
    ELSE DictSet(headers, KeyHeader, api_keys[i])

OutboundHeadersSendsInboundList == DictSet(headers, KeyHeader, api_key_header)

OutboundHeaders == DictSet(headers, KeyHeader, api_keys[i])

\* line 86, request.body(): the bytes kept in request._body if there are any,
\* else what the inbound stream still holds, which is then kept
ReadBodyKeepsNothing ==
    [content |-> IF stream_consumed THEN <<>> ELSE request.body,
     cache |-> None, reads |-> body_reads + 1]

ReadBody ==
    IF body_cache # None
    THEN [content |-> body_cache[1], cache |-> body_cache, reads |-> body_reads]
    ELSE [content |-> IF stream_consumed THEN <<>> ELSE request.body,
          cache |-> Some(IF stream_consumed THEN <<>> ELSE request.body),
          reads |-> body_reads + 1]

\* line 73, request.stream(): lazy, yields what the inbound stream still holds
StreamBody == IF stream_consumed THEN <<>> ELSE request.body

\* a response that has been read to its end and closed (client.request,
\* lines 97-99), or a connection that failed, is no longer open
ReleaseLeavesOpen(pos) == in_flight

Release(pos) == in_flight \ {pos}

\* lines 59-75 and 59-87: the key is injected, the body argument is evaluated
\* and the call is issued; the handler awaits the upstream
IssueBuffered ==
    /\ InLoop
    /\ ~is_streaming
    /\ headers' = OutboundHeaders
    /\ body_cache' = ReadBody.cache
    /\ body_reads' = ReadBody.reads
    /\ stream_consumed' = (stream_consumed \/ body_cache = None)
    /\ sending' = Some(ReadBody.content)
    /\ in_flight' = in_flight \cup {i}
    /\ pc' = "awaiting"
    /\ UNCHANGED <<request, environ, api_keys, env_consulted, last_error,
                   last_status, i, client_open, attempts, result, relay,
                   upstream_rest, delivered>>

IssueStreamed ==
    /\ InLoop
    /\ is_streaming
    /\ headers' = OutboundHeaders
    /\ sending' = Some(StreamBody)
    /\ in_flight' = in_flight \cup {i}
    /\ pc' = "awaiting"
    /\ UNCHANGED <<request, environ, api_keys, env_consulted, last_error,
                   last_status, i, client_open, stream_consumed, body_reads,
                   body_cache, attempts, result, relay, upstream_rest, delivered>>

\* one upstream call as the upstream sees it: the credential is the one its
\* x-goog-api-key header carries
Call(content, o) ==
    [pos |-> i, key |-> headers[KeyHeader], headers |-> headers,
     content |-> content, outcome |-> o]

\* the common part of the end of a call of the buffered branch (lines 82-87)
Buffered(o) ==
    /\ Awaiting
    /\ ~is_streaming
    /\ attempts' = Append(attempts, Call(sending[1], o))
    /\ sending' = None
    /\ UNCHANGED <<request, environ, api_keys, env_consulted, headers,
                   stream_consumed, body_reads, body_cache, relay, upstream_rest,
                   delivered>>

\* lines 88-92
BufferedSuccess ==
    \E o \in Responses :
        /\ Buffered(o)
        /\ Classify(o.status_code) = "success"
        /\ result' = Some([kind |-> "success", status_code |-> o.status_code,
                           content |-> Some(o.content),
                           headers |-> FilteredResponseHeaders(o),
                           media_type |-> ResponseMediaType(o)])
        /\ pc' = "returned"
        /\ client_open' = FALSE
        /\ in_flight' = {}
        /\ UNCHANGED <<last_error, last_status, i>>

\* lines 95-100
BufferedRejected ==
    \E o \in Responses :
        /\ Buffered(o)
        /\ Classify(o.status_code) = "retry"
        /\ LET rec == RecordFailure([error |-> last_error, status |-> last_status],
                                    o.status_code, o.content)
           IN  last_error' = rec.error /\ last_status' = rec.status
        /\ in_flight' = Release(i)
        /\ i' = i + 1
        /\ pc' = "loop"
        /\ UNCHANGED <<client_open, result>>

\* lines 102-104
BufferedServerError ==
    \E o \in Responses :
        /\ Buffered(o)
        /\ Classify(o.status_code) = "fatal"
        /\ result' = Some([kind |-> "fatal", status_code |-> o.status_code,
                           content |-> Some(o.content),
                           headers |-> ResponseHeaderDict(o),
                           media_type |-> None])
        /\ pc' = "returned"
        /\ client_open' = FALSE
        /\ in_flight' = {}
        /\ UNCHANGED <<last_error, last_status, i>>

\* lines 106-111, reached from client.request
BufferedFailed ==
    \E o \in Failures :
        /\ Buffered(o)
        /\ LET rec == RecordFailure([error |-> last_error, status |-> last_status],
                                    502, ProxyErrorBody(o.error))
           IN  last_error' = rec.error /\ last_status' = rec.status
        /\ in_flight' = Release(i)
        /\ i' = i + 1
        /\ pc' = "loop"
        /\ UNCHANGED <<client_open, result>>

\* the common part of the end of a call of the streaming branch (lines 69-75)
Streamed(o) ==
    /\ Awaiting
    /\ is_streaming
    /\ attempts' = Append(attempts, Call(sending[1], o))
    /\ sending' = None
    /\ UNCHANGED <<request, environ, api_keys, env_consulted, headers, body_reads,
                   body_cache>>

\* lines 77-79: the return leaves `async with`, which closes the client and
\* with it the connection the response r reads from
StreamCommitted ==
    \E o \in Responses :
        /\ Streamed(o)
        /\ ~stream_consumed
        /\ o.status_code = 200
        /\ result' = Some([kind |-> "stream", status_code |-> o.status_code,
                           content |-> None,
                           headers |-> ResponseHeaderDict(o),
                           media_type |-> ResponseMediaType(o)])
        /\ relay' = "active"
        /\ upstream_rest' = o.content
        /\ stream_consumed' = TRUE
        /\ pc' = "returned"
        /\ client_open' = FALSE
        /\ in_flight' = {}
        /\ UNCHANGED <<last_error, last_status, i, delivered>>

\* line 77 false, then line 95 reads `response`, which the streaming branch
\* never binds (it binds `r`): UnboundLocalError, not an httpx.RequestError
StreamNot200 ==
    \E o \in Responses :
        /\ Streamed(o)
        /\ ~stream_consumed
        /\ o.status_code # 200
        /\ stream_consumed' = TRUE
        /\ pc' = "raised"
        /\ client_open' = FALSE
        /\ in_flight' = {}
        /\ UNCHANGED <<last_error, last_status, i, result, relay, upstream_rest,
                       delivered>>

\* lines 106-111, reached from client.send: a connect error leaves the inbound
\* body unread, a later error has read it
StreamFailed ==
    \E o \in Failures :
        /\ Streamed(o)
        /\ stream_consumed => o.error = ConnectError
        /\ LET rec == RecordFailure([error |-> last_error, status |-> last_status],
                                    502, ProxyErrorBody(o.error))
           IN  last_error' = rec.error /\ last_status' = rec.status
        /\ stream_consumed' = (stream_consumed \/ o.error # ConnectError)
        /\ in_flight' = Release(i)
        /\ i' = i + 1
        /\ pc' = "loop"
        /\ UNCHANGED <<client_open, result, relay, upstream_rest, delivered>>

\* the call that ends when httpx asks request.stream() for the body a second time
StreamConsumedError ==
    [kind |-> "raised", status_code |-> 0, lines |-> <<>>, content |-> <<>>,
     error |-> "RuntimeError"]

\* line 73 on a retry: request.stream() of a consumed request raises
\* RuntimeError("Stream consumed") when httpx starts to send the body
StreamReRead ==
    /\ Streamed(StreamConsumedError)
    /\ stream_consumed
    /\ pc' = "raised"
    /\ client_open' = FALSE
    /\ in_flight' = {}
    /\ UNCHANGED <<last_error, last_status, i, stream_consumed, result, relay,
                   upstream_rest, delivered>>

\* lines 113-115
Exhausted ==
    /\ pc = "loop"
    /\ i > Len(api_keys)
    /\ result' = Some([kind |-> "exhausted", status_code |-> last_status,
                       content |-> last_error, headers |-> EmptyDict,
                       media_type |-> JsonMediaType])
    /\ pc' = "returned"
    /\ client_open' = FALSE
    /\ UNCHANGED <<request, environ, api_keys, env_consulted, headers, last_error,
                   last_status, i, stream_consumed, body_reads, body_cache,
                   sending, in_flight, attempts, relay, upstream_rest, delivered>>

----------------------------------------------------------------------------
(* Line 79: the framework iterates r.aiter_bytes() after the handler has   *)
(* returned.  A read on a closed client may still yield bytes the          *)
(* connection had buffered, or fail; both outcomes are kept.               *)
RelayChunk ==
    /\ relay = "active"
    /\ upstream_rest # <<>>
    /\ delivered' = Append(delivered, Head(upstream_rest))
    /\ upstream_rest' = Tail(upstream_rest)
    /\ UNCHANGED <<request, environ, pc, api_keys, env_consulted, headers,
                   last_error, last_status, i, client_open, stream_consumed,
                   body_reads, body_cache, sending, in_flight, attempts, result,
                   relay>>

RelayEnd ==
    /\ relay = "active"
    /\ upstream_rest = <<>>
    /\ relay' = "complete"
    /\ UNCHANGED <<request, environ, pc, api_keys, env_consulted, headers,
                   last_error, last_status, i, client_open, stream_consumed,
                   body_reads, body_cache, sending, in_flight, attempts, result,
                   upstream_rest, delivered>>

\* the upstream body fails after the hand-off: the caller's stream is cut short
RelayAbortRetriesNextKey ==
    /\ relay = "active"
    /\ relay' = "aborted"
    /\ pc' = "loop"
    /\ i' = i + 1
    /\ UNCHANGED <<request, environ, api_keys, env_consulted, headers,
                   last_error, last_status, client_open, stream_consumed,
                   body_reads, body_cache, sending, in_flight, attempts, result,
                   upstream_rest, delivered>>

RelayAbort ==
    /\ relay = "active"
    /\ relay' = "aborted"
    /\ UNCHANGED <<request, environ, pc, api_keys, env_consulted, headers,
                   last_error, last_status, i, client_open, stream_consumed,
                   body_reads, body_cache, sending, in_flight, attempts, result,
                   upstream_rest, delivered>>

Next ==
    \/ ReturnMissingKeys
    \/ EnterLoop
    \/ IssueBuffered
    \/ IssueStreamed
    \/ BufferedSuccess
    \/ BufferedRejected
    \/ BufferedServerError
    \/ BufferedFailed
    \/ StreamCommitted
    \/ StreamNot200
    \/ StreamFailed
    \/ StreamReRead
    \/ Exhausted
    \/ RelayChunk
    \/ RelayEnd
    \/ RelayAbort

----------------------------------------------------------------------------
(* Inputs.                                                                 *)
Text(alphabet, n) == UNION {[1..k -> alphabet] : k \in 0..n}

WireHost == <<"H","o","s","t">>
WireUserAgent == <<"u","s","e","r","-","a","g","e","n","t">>
WireKeyHeader == <<"X","-","G","o","o","g","-","A","p","i","-","K","e","y">>

Paths ==
    { <<"v","1","/","m","o","d","e","l","s","/","m",":","g","e","n">>,
      <<"v","1","/","m","o","d","e","l","s","/","m",":","s","t","r","e","a","m","G","e","n">>,
      <<"v","1","/","u","p","S","T","R","E","A","M">> }

InboundBody == <<"q1", "q2">>

BaseLines == << <<WireHost, <<"proxy.example">>>>, <<WireUserAgent, <<"curl/8">>>> >>

KeyHeaderValues ==
    { <<>>, <<" ",","," ">>, <<"a">>, <<"a",",","b">>, <<" ","a"," ",",","b",",">>, <<"a",",","a">>, <<"a",",","b",",","c">> }

Environs ==
    { <<>>,
      << <<"GOOGLE_API_KEYS", <<>>>> >>,
      << <<"GOOGLE_API_KEYS", <<"e">>>> >>,
      << <<"GOOGLE_API_KEYS", <<"e",","," ","f">>>> >> }

PristineHandler ==
    /\ pc = "start"
    /\ api_keys = <<>>
    /\ env_consulted = FALSE
    /\ headers = EmptyDict
    /\ last_error = None
    /\ last_status = 0
    /\ i = 0
    /\ client_open = FALSE
    /\ stream_consumed = FALSE
    /\ body_reads = 0
    /\ body_cache = None
    /\ sending = None
    /\ in_flight = {}
    /\ attempts = <<>>
    /\ result = None
    /\ relay = "none"
    /\ upstream_rest = <<>>
    /\ delivered = <<>>

\* representative requests: every path class, pools of 0 to 3 keys from either source
Init ==
    /\ request \in
         [path : Paths,
          headers : {BaseLines} \cup
                    {BaseLines \o << <<WireKeyHeader, v>> >> : v \in KeyHeaderValues},
          body : {InboundBody}]
    /\ environ \in Environs
    /\ PristineHandler

Spec == Init /\ [][Next]_vars

----------------------------------------------------------------------------
(* Exhaustive credential sources: every header value and every environment *)
(* value up to a length, extraction and shuffle only.                      *)
KeyAlphabet == {"a", "b", ",", " "}
EnvAlphabet == {"e", ",", " "}

InitKeys ==
    /\ request \in
         [path : {<<"v","1">>},
          headers : {<<>>} \cup
                    {<< <<WireKeyHeader, v>> >> : v \in Text(KeyAlphabet, MaxKeyLen)},
          body : {InboundBody}]
    /\ environ \in
         {<<>>} \cup {<< <<"GOOGLE_API_KEYS", v>> >> : v \in Text(EnvAlphabet, MaxEnvLen)}
    /\ PristineHandler

NextKeys == ReturnMissingKeys \/ EnterLoop

SpecKeys == InitKeys /\ [][NextKeys]_vars

----------------------------------------------------------------------------
(* Properties of the failover loop.                                        *)
Attempted == 1..Len(attempts)
Got(k) == attempts[k].outcome
GotResponse(k) == Got(k).kind = "response"
InShuffledOrder(k) == attempts[k].pos = k /\ attempts[k].key = api_keys[k]

\* the caller has been handed the status and body of attempt k
Returned(k) ==
    /\ pc = "returned"
    /\ result # None
    /\ result[1].status_code = Got(k).status_code
    /\ result[1].content = Some(Got(k).content)

\* C1: on a non-streaming path, an attempt that receives a status below 400 is
\* the last attempt ever made, it is made with the credential at its position
\* of the shuffled pool, and its status and body are what the caller gets.
C1_FirstSuccessEndsLoop ==
    ~is_streaming =>
        \A k \in Attempted :
            (GotResponse(k) /\ Got(k).status_code < 400) =>
                /\ k = Len(attempts)
                /\ InShuffledOrder(k)
                /\ Returned(k)
                /\ result[1].kind = "success"

\* a redirect from the second of three credentials, after a rejected first one
C1_Witness ==
    /\ ~is_streaming
    /\ Len(api_keys) = 3
    /\ Len(attempts) = 2
    /\ GotResponse(1) /\ Got(1).status_code = 429
    /\ GotResponse(2) /\ Got(2).status_code = 302
    /\ pc = "returned"

\* C2: on a non-streaming path, an attempt at position k that receives a status
\* of 500 or more is the last attempt ever made and its status and body are what
\* the caller gets, whatever 4xx or network failures came before it.
C2_ServerErrorEndsLoop ==
    ~is_streaming =>
        \A k \in Attempted :
            (GotResponse(k) /\ Got(k).status_code >= 500) =>
                /\ k = Len(attempts)
                /\ InShuffledOrder(k)
                /\ Returned(k)
                /\ \A m \in 1..(k - 1) :
                       ~GotResponse(m) \/ Got(m).status_code \in 400..499

\* a 500 from the third credential after a 4xx and a network failure
C2_Witness ==
    /\ ~is_streaming
    /\ Len(api_keys) = 3
    /\ Len(attempts) = 3
    /\ GotResponse(1) /\ Got(1).status_code = 400
    /\ ~GotResponse(2)
    /\ GotResponse(3) /\ Got(3).status_code = 500
    /\ pc = "returned"

AllRejected ==
    /\ api_keys # <<>>
    /\ Len(attempts) = Len(api_keys)
    /\ \A k \in Attempted : GotResponse(k) /\ Got(k).status_code \in 400..499

HandlerEnded == pc \in {"returned", "raised"}

\* C3: once every credential of a non-empty pool has been attempted and each
\* attempt received a 4xx, the handler ends by returning the status and body of
\* the last attempt.
C3_AllRejectedReturnsLast ==
    (AllRejected /\ HandlerEnded) => Returned(Len(attempts))

\* the same on the buffered branch only, where the loop reaches its exhaustion
\* return
C3_BufferedAllRejectedReturnsLast ==
    (~is_streaming /\ AllRejected /\ HandlerEnded) =>
        /\ Returned(Len(attempts))
        /\ result[1].kind = "exhausted"

C3_BufferedWitness ==
    /\ ~is_streaming
    /\ AllRejected
    /\ Len(attempts) = 3
    /\ Got(1).status_code = 400 /\ Got(1).content = <<"c1">>
    /\ Got(3).status_code = 429 /\ Got(3).content = <<"c2", "c3">>
    /\ pc = "returned"

\* a value whose comma-separated parts are all blank
NoEntry(value) == \A j \in 1..Len(value) : value[j] \in Whitespace \cup {","}

\* C4: when neither the x-goog-api-key header nor GOOGLE_API_KEYS holds an
\* entry, the handler makes no upstream call, never enters the loop, and returns
\* status 400 with the JSON error body.
C4_MissingKeysNoUpstreamCall ==
    (NoEntry(api_key_header) /\ NoEntry(env_keys)) =>
        /\ attempts = <<>>
        /\ pc \in {"start", "returned"}
        /\ pc = "returned" =>
               /\ result # None
               /\ result[1].status_code = 400
               /\ result[1].content = Some(MissingKeysBody)
               /\ result[1].media_type = JsonMediaType

\* blank header " , " and empty environment value, 400 returned
C4_Witness ==
    /\ api_key_header # <<>>
    /\ NoEntry(api_key_header)
    /\ environ # <<>>
    /\ NoEntry(env_keys)
    /\ pc = "returned"
    /\ result[1].status_code = 400

\* C5: the handler never ends in an unhandled internal error.
C5_NoUnhandledError == pc # "raised"

\* C6: on a streaming path with at least two credentials, a 4xx received from a
\* credential that is not the last starts no relay, is recorded as the latest
\* failure, and is followed by the attempt with the next credential.
C6_StreamRejectedTriesNext ==
    (is_streaming /\ Len(api_keys) >= 2) =>
        \A k \in Attempted :
            (GotResponse(k) /\ Got(k).status_code \in 400..499 /\ k < Len(api_keys)) =>
                /\ relay = "none" \/ k < Len(attempts)
                /\ pc # "raised" \/ k < Len(attempts)
                /\ k = Len(attempts) =>
                       /\ pc = "loop"
                       /\ i = k + 1
                       /\ last_status = Got(k).status_code
                       /\ last_error = Some(Got(k).content)

\* C7: every chunk the relay reads after the hand-off is read while the client
\* that owns the upstream connection is still open.
C7_RelayReadsFromOpenClient == [][RelayChunk => client_open]_vars

----------------------------------------------------------------------------
(* Exhaustive inbound header lines: every list of up to MaxHeaders lines   *)
(* over the spellings below, run through the whole handler.                *)
WireNames ==
    { <<"h","o","s","t">>,
      <<"H","o","s","t">>,
      <<"x","-","r","e","a","l","-","i","p">>,
      <<"X","-","F","o","r","w","a","r","d","e","d","-","F","o","r">>,
      <<"x","-","f","o","r","w","a","r","d","e","d","-","p","r","o","t","o">>,
      <<"X","-","V","e","r","c","e","l","-","I","d">>,
      <<"x","-","v","e","r","c","e","l","-","d","e","p","l","o","y","m","e","n","t","-","u","r","l">>,
      <<"x","-","v","e","r","c","e","l","-","p","r","o","x","i","e","d","-","f","o","r">>,
      <<"U","s","e","r","-","A","g","e","n","t">>,
      <<"U","S","E","R","-","A","G","E","N","T">>,
      <<"a","c","c","e","p","t">>,
      <<"A","c","c","e","p","t">>,
      WireUserAgent }

WireLines ==
    {<<n, <<"v1">>>> : n \in WireNames}
        \cup {<<n, <<"v2">>>> : n \in {WireUserAgent, <<"a","c","c","e","p","t">>}}
        \cup {<<WireKeyHeader, <<"a", ",", "b">>>>, <<KeyHeader, <<"c">>>>}

InitHeaders ==
    /\ request \in
         [path : {<<"v","1","/","m",":","g","e","n">>, <<"v","1","/","m",":","s","t","r","e","a","m","G","e","n">>},
          headers : UNION {[1..n -> WireLines] : n \in 0..MaxHeaders},
          body : {InboundBody}]
    /\ environ \in {<<>>, << <<"GOOGLE_API_KEYS", <<"e">>>> >>}
    /\ PristineHandler

SpecHeaders == InitHeaders /\ [][Next]_vars

----------------------------------------------------------------------------
(* Properties of the outbound headers and of the credential pool.          *)

\* C8: no header of an upstream call whose name is user-agent in any letter
\* case carries anything but the fixed literal.
C8_OutboundUserAgentIsFixed ==
    \A k \in Attempted :
        \A n \in DOMAIN attempts[k].headers :
            Lower(n) = Lower(UserAgentKey) => attempts[k].headers[n] = FixedUserAgent

InboundLines == {request.headers[j] : j \in 1..Len(request.headers)}
Excluded(n) == Lower(n) \in excluded_headers

\* no excluded inbound header survives into the dict built before the loop
SanitizedDropsExcluded ==
    pc # "start" => \A n \in DOMAIN headers : n = KeyHeader \/ ~Excluded(n)

\* the credential header of a call is the one the loop injected
OnlyInjectedCredential ==
    \A k \in Attempted :
        \A n \in DOMAIN attempts[k].headers :
            Lower(n) = KeyHeader =>
                n = KeyHeader /\ attempts[k].headers[n] = attempts[k].key

\* every inbound line that is neither excluded nor the client identity reaches
\* the upstream with its value
OthersKeptWithValue ==
    \A k \in Attempted :
        \A l \in InboundLines :
            (~Excluded(l[1]) /\ Lower(l[1]) # Lower(UserAgentKey)) =>
                \E n \in DOMAIN attempts[k].headers :
                    Lower(n) = Lower(l[1]) /\ attempts[k].headers[n] = l[2]

\* C9: the sanitized headers hold no excluded inbound header, every other
\* inbound header is kept with its value, and the only credential header of an
\* upstream call is the injected one.
C9_SanitizedHeaders ==
    /\ SanitizedDropsExcluded
    /\ OthersKeptWithValue
    /\ OnlyInjectedCredential

\* the positions of a value that hold neither a blank nor a comma
Letters(value) == {j \in 1..Len(value) : value[j] \notin Whitespace \cup {","}}
\* the non-blank characters of the pool, by entry and position
PoolLetters ==
    UNION {{<<k, j>> : j \in Letters(api_keys[k])} : k \in 1..Len(api_keys)}

WellFormedEntry(key) ==
    /\ key # <<>>
    /\ Head(key) \notin Whitespace
    /\ key[Len(key)] \notin Whitespace
    /\ \A j \in 1..Len(key) : key[j] # ","

\* the pool is exactly the entries of one source value
PoolFrom(value) ==
    /\ \A k \in 1..Len(api_keys) : Contains(api_keys[k], value)
    /\ Cardinality(PoolLetters) = Cardinality(Letters(value))

\* C10: the pool is the entries of the x-goog-api-key header whenever that
\* header holds an entry, and GOOGLE_API_KEYS is then not consulted; otherwise it
\* is the entries of GOOGLE_API_KEYS; no entry is empty or padded.
C10_PoolSourcePrecedence ==
    pc # "start" =>
        /\ \A k \in 1..Len(api_keys) : WellFormedEntry(api_keys[k])
        /\ ~NoEntry(api_key_header) => (~env_consulted /\ PoolFrom(api_key_header))
        /\ NoEntry(api_key_header) => (env_consulted /\ PoolFrom(env_keys))

\* a padded header entry wins over a populated environment value
C10_Witness ==
    /\ pc = "loop"
    /\ api_key_header = <<" ", "a", ",">>
    /\ ~NoEntry(env_keys)
    /\ api_keys = <<<<"a">>>>

\* a blank header falls back to the environment value
C10_FallbackWitness ==
    /\ pc = "loop"
    /\ api_key_header = <<",", " ">>
    /\ api_keys = <<<<"e">>>>

----------------------------------------------------------------------------
(* Properties of failover, ordering and the bodies sent.                   *)
GotFailure(k) == Got(k).kind = "error"
Retryable(k) == GotFailure(k) \/ (GotResponse(k) /\ Got(k).status_code \in 400..499)

\* C11: a network-level failure is recorded as 502 with its description and
\* does not end the request while a credential remains; when it is the failure
\* of the last credential the caller gets 502 with that description.
C11_NetworkFailureRecordedAndRetried ==
    \A k \in Attempted :
        GotFailure(k) =>
            /\ k < Len(api_keys) => (k < Len(attempts) \/ pc \in {"loop", "awaiting"})
            /\ k = Len(attempts) =>
                   /\ last_status = 502
                   /\ last_error = Some(ProxyErrorBody(Got(k).error))
                   /\ i = k + 1
            /\ (k = Len(attempts) /\ k = Len(api_keys) /\ HandlerEnded) =>
                   /\ pc = "returned"
                   /\ result[1].status_code = 502
                   /\ result[1].content = Some(ProxyErrorBody(Got(k).error))

\* two credentials, a connect error then a read timeout, 502 with the latter
C11_Witness ==
    /\ Len(api_keys) = 2
    /\ Len(attempts) = 2
    /\ GotFailure(1) /\ Got(1).error = ConnectError
    /\ GotFailure(2) /\ Got(2).error = ReadTimeout
    /\ pc = "returned"
    /\ result[1].status_code = 502

\* C12: the attempts follow the shuffled pool: the k-th uses the credential at
\* position k, no position is used twice, a further attempt is issued only
\* after every earlier one ended in a 4xx or a network-level failure, and there
\* are never more attempts than credentials.
C12_AttemptsFollowShuffledOrder ==
    /\ \A k \in Attempted : InShuffledOrder(k)
    /\ Len(attempts) <= Len(api_keys)
    /\ \A k \in 1..(Len(attempts) - 1) : Retryable(k)
    /\ pc = "awaiting" =>
           /\ i = Len(attempts) + 1
           /\ i <= Len(api_keys)
           /\ headers[KeyHeader] = api_keys[i]
           /\ \A k \in Attempted : Retryable(k)

\* the third of three different credentials is being tried after two failures
C12_Witness ==
    /\ Len(api_keys) = 3
    /\ api_keys[1] # api_keys[2]
    /\ Len(attempts) = 2
    /\ pc = "awaiting"
    /\ i = 3

\* C13: at most one upstream connection/response is open at any time; none is
\* open when the loop is about to issue the next attempt.
C13_AtMostOneInFlight ==
    /\ Cardinality(in_flight) <= 1
    /\ pc = "loop" => in_flight = {}
    /\ pc = "awaiting" => in_flight = {i}

\* the second attempt is open after the first was rejected
C13_Witness ==
    /\ pc = "awaiting"
    /\ i = 2
    /\ GotResponse(1)
    /\ in_flight = {2}

\* C14: the x-goog-api-key header of every upstream call is the one credential
\* being tried, under that one name; it is never the comma-separated inbound
\* value nor the credential of another position.
C14_OutboundKeyIsCurrentCredential ==
    /\ \A k \in Attempted :
           /\ KeyHeader \in DOMAIN attempts[k].headers
           /\ \A n \in DOMAIN attempts[k].headers :
                  Lower(n) = KeyHeader =>
                      /\ n = KeyHeader
                      /\ attempts[k].headers[n] = api_keys[attempts[k].pos]
                      /\ WellFormedEntry(attempts[k].headers[n])
    /\ pc = "awaiting" => headers[KeyHeader] = api_keys[i]

\* inbound list "a,b": the second call carries the second credential only
C14_Witness ==
    /\ Len(ParseKeys(api_key_header)) = 2
    /\ Len(attempts) = 2
    /\ attempts[1].headers[KeyHeader] = api_keys[1]
    /\ attempts[2].headers[KeyHeader] = api_keys[2]
    /\ api_keys[1] # api_keys[2]

\* C15: the credentials of the pool are pairwise distinct, so no credential is
\* sent upstream twice within one request.
C15_PoolIsDistinct ==
    /\ \A j, k \in 1..Len(api_keys) : j # k => api_keys[j] # api_keys[k]
    /\ \A j, k \in Attempted : j # k => attempts[j].key # attempts[k].key

\* C16: a 200 received on a streaming path commits the request: it is the last
\* attempt, the handler has returned the streamed 200, and this stays so when
\* the relay is cut short.
C16_Stream200Commits ==
    is_streaming =>
        \A k \in Attempted :
            (GotResponse(k) /\ Got(k).status_code = 200) =>
                /\ k = Len(attempts)
                /\ pc = "returned"
                /\ result # None
                /\ result[1].kind = "stream"
                /\ result[1].status_code = 200
                /\ relay # "none"

\* the relay failed after one of two chunks, a second credential was left unused
C16_Witness ==
    /\ is_streaming
    /\ Len(api_keys) = 2
    /\ Len(attempts) = 1
    /\ relay = "aborted"
    /\ delivered = <<"c2">>
    /\ upstream_rest = <<"c3">>

\* C17: on a non-streaming path the inbound body is read from its source at
\* most once and every attempt sends the same bytes, those of the request.
C17_BodyReadOnceAndReused ==
    ~is_streaming =>
        /\ body_reads <= 1
        /\ \A k \in Attempted : attempts[k].content = request.body
        /\ sending # None => sending[1] = request.body

\* three attempts, one read
C17_Witness ==
    /\ ~is_streaming
    /\ Len(attempts) = 3
    /\ body_reads = 1
    /\ attempts[3].content = InboundBody

EncodingHeaders == {ContentEncoding, TransferEncoding}

\* C18: a response returned on a non-streaming path with upstream headers (the
\* success and the passed-through 5xx) has no content-encoding and no
\* transfer-encoding header.
C18_NoEncodingHeadersReturned ==
    (result # None /\ result[1].kind \in {"success", "fatal"}) =>
        \A n \in DOMAIN result[1].headers : Lower(n) \notin EncodingHeaders

\* the success response alone: line 91 filters it
SuccessHasNoEncodingHeaders ==
    (result # None /\ result[1].kind = "success") =>
        \A n \in DOMAIN result[1].headers : Lower(n) \notin EncodingHeaders

\* C19: on a streaming path every attempt, also one after a network-level
\* failure, sends the bytes of the request body; the inbound stream is never
\* asked again for a body it has already given.
C19_StreamRetrySendsSameBody ==
    is_streaming =>
        /\ \A k \in Attempted :
               attempts[k].content = request.body /\ Got(k).kind # "raised"
        /\ sending # None => sending[1] = request.body

\* C20: what the exhaustion return hands back is a recorded failure: a body,
\* and a status that is 502 or a 4xx; never the initial pair (500, None).
C20_ExhaustionReturnsRecordedFailure ==
    (result # None /\ result[1].kind = "exhausted") =>
        /\ api_keys # <<>>
        /\ last_error # None
        /\ result[1].content # None
        /\ result[1].status_code \in {502} \cup 400..499
        /\ result[1].status_code = last_status

\* exhaustion after one network failure and one 4xx
C20_Witness ==
    /\ result # None
    /\ result[1].kind = "exhausted"
    /\ Len(attempts) = 2
    /\ GotFailure(1)
    /\ GotResponse(2)
    /\ result[1].status_code = 499

====
